---- MODULE Spec2Model ----
(***************************************************************************)
(* Model of the Obsidian vault pipeline of src/main.py and src/lambda.py:  *)
(* date inference (get_note_creation_date), the note -> record transform   *)
(* (note_to_json) and the prune / convert / collapse passes over the       *)
(* extracted vault (main, lambda_handler).                                 *)
(*                                                                         *)
(* Strings are sequences of one-character strings, so that startswith,     *)
(* endswith, removesuffix, split, join and the "in" substring test are     *)
(* computed character by character as Python computes them.  A path of the *)
(* working tree is the sequence of its segment names below the vault root. *)
(* Time stamps are seconds since the epoch, read in UTC.                   *)
(***************************************************************************)
EXTENDS Integers, Sequences, FiniteSets, TLC

VARIABLES
    entry,      \* "main" (src/main.py) or "lambda" (src/lambda.py)
    \* ---- one call of get_note_creation_date / note_to_json
    note,       \* the note handed to the call: place, content, stat() result
    phase,      \* "input", "dated" (get_note_creation_date returned), "json"
    ret,        \* what get_note_creation_date returned or raised
    rec,        \* what note_to_json returned or raised
    \* ---- the working tree and the passes over it
    stage,      \* "extract", "prune", "convert", "collapse", "done"
    err,        \* "none", or the exception that ended the run
    dirs,       \* the directories of the vault (paths below the root; <<>> is the root)
    files,      \* file path -> [kind, of]: what the file holds
    walk,       \* os.walk's stack: the sets of sibling directories still to visit
    cur,        \* the directory whose files the convert loop is iterating
    pending,    \* the names of cur's files the convert loop has not reached yet
    firstLevel, \* the entries of first_level the collapse loop has not reached yet
    vault0,     \* history: the tree as extracted
    notes,      \* history: the notes present when the convert pass started
    pre,        \* history: the tree when the collapse pass started
    converted,  \* history: the notes converted so far
    failed      \* history: the notes whose processing raised

noteVars == <<note, phase, ret, rec>>
treeVars == <<stage, err, dirs, files, walk, cur, pending, firstLevel,
              vault0, notes, pre, converted, failed>>
vars == <<entry, note, phase, ret, rec, stage, err, dirs, files, walk, cur,
          pending, firstLevel, vault0, notes, pre, converted, failed>>

----------------------------------------------------------------------------
(* Bounds of the model.                                                    *)

\* longest text after "date:" on a front-matter line
MaxTail == 3
\* the years of the weekly notes: MinYear .. MaxYear
MinYear == 2019
MaxYear == 2026
\* the week numbers of the weekly notes: 0 .. MaxWeek
MaxWeek == 54
\* the most directories and files an extracted vault holds
MaxNodes == 4

----------------------------------------------------------------------------
(* Python's str operations.                                                *)

Min(S) == CHOOSE x \in S : \A y \in S : x <= y

Last(s) == s[Len(s)]

Front(s) == SubSeq(s, 1, Len(s) - 1)

StartsWith(s, p) == Len(s) >= Len(p) /\ SubSeq(s, 1, Len(p)) = p

EndsWith(s, p) == Len(s) >= Len(p) /\ SubSeq(s, Len(s) - Len(p) + 1, Len(s)) = p

RemoveSuffix(s, p) == IF EndsWith(s, p) THEN SubSeq(s, 1, Len(s) - Len(p)) ELSE s

\* str.find: the first index of sub in s, 0 when there is none
Find(s, sub) ==
    LET at == {k \in 1..(Len(s) - Len(sub) + 1) : SubSeq(s, k, k + Len(sub) - 1) = sub}
    IN  IF at = {} THEN 0 ELSE Min(at)

\* str.rfind: the last index of sub in s, 0 when there is none
RFind(s, sub) ==
    LET at == {k \in 1..(Len(s) - Len(sub) + 1) : SubSeq(s, k, k + Len(sub) - 1) = sub}
    IN  IF at = {} THEN 0 ELSE CHOOSE k \in at : \A j \in at : j <= k

\* the "in" operator on strings
Contains(s, sub) == Find(s, sub) # 0

\* s.split(sep) with an explicit separator: empty pieces are kept
RECURSIVE Split(_, _)
Split(s, sep) ==
    LET k == Find(s, sep)
    IN  IF k = 0 THEN <<s>>
        ELSE <<SubSeq(s, 1, k - 1)>> \o Split(SubSeq(s, k + Len(sep), Len(s)), sep)

\* sep.join(parts)
RECURSIVE Join(_, _)
Join(parts, sep) ==
    IF parts = <<>> THEN <<>>
    ELSE IF Len(parts) = 1 THEN parts[1]
    ELSE parts[1] \o sep \o Join(Tail(parts), sep)

Digits == <<"0", "1", "2", "3", "4", "5", "6", "7", "8", "9">>

IsDigit(c) == \E i \in 1..10 : Digits[i] = c

DigitValue(c) == (CHOOSE i \in 1..10 : Digits[i] = c) - 1

AllDigits(s) == Len(s) > 0 /\ \A i \in 1..Len(s) : IsDigit(s[i])

\* int(s) of a string of decimal digits
RECURSIVE ParseInt(_)
ParseInt(s) ==
    IF Len(s) = 0 THEN 0 ELSE 10 * ParseInt(Front(s)) + DigitValue(Last(s))

\* the decimal digits of n, zero-padded to at least w characters (%02d, %04d)
RECURSIVE Pad(_, _)
Pad(n, w) ==
    IF n < 10 /\ w <= 1 THEN <<Digits[n + 1]>>
    ELSE Pad(n \div 10, w - 1) \o <<Digits[(n % 10) + 1]>>

\* os.path.basename
Basename(p) == SubSeq(p, RFind(p, <<"/">>) + 1, Len(p))

\* str.rstrip("/")
RECURSIVE RStripSlash(_)
RStripSlash(s) ==
    IF Len(s) > 0 /\ Last(s) = "/" THEN RStripSlash(Front(s)) ELSE s

\* os.path.dirname (posixpath): the head up to the last slash, its trailing
\* slashes stripped unless it is nothing but slashes
Dirname(p) ==
    LET head == SubSeq(p, 1, RFind(p, <<"/">>))
    IN  IF head # <<>> /\ RStripSlash(head) # <<>> THEN RStripSlash(head) ELSE head

----------------------------------------------------------------------------
(* The calendar of datetime: proleptic Gregorian ordinals, Monday = 0.     *)

IsLeap(y) == (y % 4 = 0) /\ ((y % 100 # 0) \/ (y % 400 = 0))

DaysInMonth(y, m) ==
    IF m = 2 THEN (IF IsLeap(y) THEN 29 ELSE 28)
    ELSE IF m \in {4, 6, 9, 11} THEN 30 ELSE 31

RECURSIVE DaysBeforeMonth(_, _)
DaysBeforeMonth(y, m) ==
    IF m = 1 THEN 0 ELSE DaysBeforeMonth(y, m - 1) + DaysInMonth(y, m - 1)

DaysBeforeYear(y) ==
    (y - 1) * 365 + ((y - 1) \div 4) - ((y - 1) \div 100) + ((y - 1) \div 400)

\* date(y, m, d).toordinal()
ToOrdinal(y, m, d) == DaysBeforeYear(y) + DaysBeforeMonth(y, m) + d

\* date.weekday(): Monday is 0
Weekday(o) == (o + 6) % 7

\* date.fromordinal(o) as [y, m, d]
FromOrdinal(o) ==
    LET y == CHOOSE yy \in ((o + 365) \div 366)..(((o - 1) \div 365) + 1) :
                 DaysBeforeYear(yy) < o /\ o <= DaysBeforeYear(yy + 1)
        n == o - DaysBeforeYear(y)
        m == CHOOSE mm \in 1..12 :
                 DaysBeforeMonth(y, mm) < n /\ n <= DaysBeforeMonth(y, mm) + DaysInMonth(y, mm)
    IN  [y |-> y, m |-> m, d |-> n - DaysBeforeMonth(y, m)]

\* datetime.fromtimestamp(t): the date and the second of the day
FromTimestamp(t) ==
    LET c == FromOrdinal(719163 + (t \div 86400))
    IN  [y |-> c.y, m |-> c.m, d |-> c.d, s |-> t % 86400]

\* strftime("%Y-%m-%d")
StrfDate(c) == Pad(c.y, 4) \o <<"-">> \o Pad(c.m, 2) \o <<"-">> \o Pad(c.d, 2)

\* strftime("%Y-%m-%d %H:%M:%S")
StrfDateTime(c) ==
    StrfDate(c) \o <<" ">> \o Pad(c.s \div 3600, 2) \o <<":">>
        \o Pad((c.s % 3600) \div 60, 2) \o <<":">> \o Pad(c.s % 60, 2)

----------------------------------------------------------------------------
(* Results of a call: a returned string, or the exception raised.          *)

Return(v) == [ok |-> TRUE, val |-> v, err |-> "none"]

Raise(e) == [ok |-> FALSE, val |-> <<>>, err |-> e]

----------------------------------------------------------------------------
(* The literals of the source.                                             *)

Dash3 == <<"-", "-", "-">>

DatePrefix == <<"d", "a", "t", "e", ":">>

MdSuffix == <<".", "m", "d">>

JsonSuffix == <<".", "j", "s", "o", "n">>

InPeriodic == <<"/", "P", "e", "r", "i", "o", "d", "i", "c", "/">>

InDaily == <<"/", "D", "a", "i", "l", "y", " ", "N", "o", "t", "e", "s", "/">>

InWeekly == <<"/", "W", "e", "e", "k", "l", "y", " ", "N", "o", "t", "e", "s", "/">>

InMonthly == <<"/", "M", "o", "n", "t", "h", "l", "y", " ", "N", "o", "t", "e", "s", "/">>

InYearly == <<"/", "Y", "e", "a", "r", "l", "y", " ", "N", "o", "t", "e", "s", "/">>

\* vault = "vault" in main, vault = "/tmp/vault" in lambda_handler
VaultOf(e) ==
    IF e = "main" THEN <<"v", "a", "u", "l", "t">>
    ELSE <<"/", "t", "m", "p", "/", "v", "a", "u", "l", "t">>

\* note = os.path.join(root, file), root being os.walk's directory under vault
NoteFile(e, path) == Join(<<VaultOf(e)>> \o path, <<"/">>)

----------------------------------------------------------------------------
(* get_note_creation_date.                                                 *)

\* step 1: the date of the front matter.  hit is FALSE when the rule falls through
FrontMatterDate(content) ==
    IF ~StartsWith(content, Dash3) THEN [hit |-> FALSE, res |-> Raise("none")]
    ELSE LET lines == Split(content, <<"\n">>)
             at == {i \in 1..Len(lines) : StartsWith(lines[i], DatePrefix)}
         IN  IF at = {} THEN [hit |-> FALSE, res |-> Raise("none")]
             ELSE LET toks == Split(lines[Min(at)], <<" ">>)
                  IN  [hit |-> TRUE,
                       res |-> IF Len(toks) < 2 THEN Raise("IndexError")
                               ELSE Return(toks[2])]

\* strptime's day of the year of the Monday (%w = 1) of week %W of a year whose
\* 1 January falls on first_weekday: week 0 is the days before the first Monday
MondayOfWeekMutant(first_weekday, week) ==
    IF week = 0 THEN 1 - first_weekday
    ELSE 1 + (7 - first_weekday) + 7 * (week - 1)

MondayOfWeek(first_weekday, week) ==
    IF week = 0 THEN 1 - first_weekday
    ELSE 1 + ((7 - first_weekday) % 7) + 7 * (week - 1)

\* the text %W accepts: 5[0-3] | [0-4]\d | \d
IsWeekText(t) ==
    \/ Len(t) = 2 /\ t[1] = "5" /\ t[2] \in {"0", "1", "2", "3"}
    \/ Len(t) = 2 /\ t[1] \in {"0", "1", "2", "3", "4"} /\ IsDigit(t[2])
    \/ Len(t) = 1 /\ IsDigit(t[1])

\* datetime.strptime(s, "%Y-W%W-%w").strftime("%Y-%m-%d")
Strptime(s) ==
    LET rest == SubSeq(s, 7, Len(s))
        fits(k) == /\ Len(rest) = k + 2
                   /\ IsWeekText(SubSeq(rest, 1, k))
                   /\ rest[k + 1] = "-"
                   /\ rest[k + 2] \in {"0", "1", "2", "3", "4", "5", "6"}
    IN  IF ~(/\ Len(s) >= 6
             /\ AllDigits(SubSeq(s, 1, 4))
             /\ SubSeq(s, 5, 6) = <<"-", "W">>
             /\ \E k \in {1, 2} : fits(k))
        THEN Raise("ValueError")
        ELSE LET k == CHOOSE kk \in {1, 2} : fits(kk)
                 year == ParseInt(SubSeq(s, 1, 4))
                 week == ParseInt(SubSeq(rest, 1, k))
                 jan1 == ToOrdinal(year, 1, 1)
                 o == jan1 + MondayOfWeek(Weekday(jan1), week) - 1
             IN  IF year < 1 \/ o < 1 THEN Raise("ValueError")
                 ELSE Return(StrfDate(FromOrdinal(o)))

\* the "Weekly Notes" rule: YEAR-Wnn.md -> the first day of that week
WeeklyDate(fname) ==
    LET parts == Split(RemoveSuffix(fname, MdSuffix), <<"-", "W">>)
    IN  IF Len(parts) # 2 THEN Raise("ValueError")
        ELSE IF ~AllDigits(parts[2]) THEN Raise("ValueError")
        ELSE Strptime(parts[1] \o <<"-", "W">> \o Pad(ParseInt(parts[2]), 1)
                        \o <<"-", "1">>)

\* step 2: the date of a periodic note's file name
PeriodicDate(note_file) ==
    LET fname == Basename(note_file)
        miss == [hit |-> FALSE, res |-> Raise("none")]
    IN  IF ~Contains(note_file, InPeriodic) THEN miss
        ELSE IF Contains(note_file, InDaily)
            THEN [hit |-> TRUE, res |-> Return(Split(fname, <<" ">>)[1])]
        ELSE IF Contains(note_file, InWeekly)
            THEN [hit |-> TRUE, res |-> WeeklyDate(fname)]
        ELSE IF Contains(note_file, InMonthly)
            THEN [hit |-> TRUE,
                  res |-> Return(RemoveSuffix(fname, MdSuffix) \o <<"-", "0", "1">>)]
        ELSE IF Contains(note_file, InYearly)
            THEN [hit |-> TRUE,
                  res |-> Return(RemoveSuffix(fname, MdSuffix)
                                   \o <<"-", "0", "1", "-", "0", "1">>)]
        ELSE miss

\* the fourth entry of dates.  main reads stats.st_birthtime outright; lambda
\* wraps the datetime in a one-element tuple, and falls back to
\* datetime.fromtimestamp(1) when the attribute is missing
Birthtime(e, n) ==
    IF e = "main"
    THEN (IF n.hasBirth THEN [raised |-> FALSE, datetime |-> TRUE, t |-> n.birth]
          ELSE [raised |-> TRUE, datetime |-> FALSE, t |-> 0])
    ELSE (IF n.hasBirth THEN [raised |-> FALSE, datetime |-> FALSE, t |-> n.birth]
          ELSE [raised |-> FALSE, datetime |-> TRUE, t |-> 1])

\* step 3: the oldest of the four time stamps whose year is after 1990
TimestampDate(e, n) ==
    LET b == Birthtime(e, n)
        three == {n.ctime, n.mtime, n.atime}
    IN  IF b.raised THEN Raise("AttributeError")
        ELSE IF ~b.datetime THEN Raise("AttributeError")
        ELSE LET kept == {t \in three \cup {b.t} : FromTimestamp(t).y > 1990}
             IN  IF kept = {} THEN Raise("ValueError")
                 ELSE Return(StrfDate(FromTimestamp(Min(kept))))

get_note_creation_date(e, note_file, n) ==
    IF ~n.readable THEN Raise("PermissionError")
    ELSE LET fm == FrontMatterDate(n.content)
             pd == PeriodicDate(note_file)
         IN  IF fm.hit THEN fm.res
             ELSE IF pd.hit THEN pd.res
             ELSE TimestampDate(e, n)

----------------------------------------------------------------------------
(* note_to_json.                                                           *)

\* path: the note's directory
PathOf(e, note_file) ==
    IF e = "main" THEN Last(Split(Dirname(note_file), <<"/">>))
    ELSE LET segs == Split(note_file, <<"/">>)
         IN  Join(SubSeq(segs, 2, Len(segs) - 1), <<"/">>)

\* folder: the last folder of path
FolderOf(e, path) ==
    IF e = "main" THEN Last(Split(Dirname(path), <<"/">>))
    ELSE Last(Split(path, <<"/">>))

NoRecord(e) ==
    [ok |-> FALSE, err |-> e, title |-> <<>>, created_date |-> <<>>,
     modified_date |-> <<>>, modified_time |-> <<>>, path |-> <<>>,
     folder |-> <<>>, content |-> <<>>]

note_to_json(e, note_file, n) ==
    LET created == get_note_creation_date(e, note_file, n)
        path == PathOf(e, note_file)
    IN  IF ~n.readable THEN NoRecord("PermissionError")
        ELSE IF ~created.ok THEN NoRecord(created.err)
        ELSE [ok |-> TRUE, err |-> "none",
              title |-> RemoveSuffix(Basename(note_file), MdSuffix),
              created_date |-> created.val,
              modified_date |-> StrfDate(FromTimestamp(n.mtime)),
              modified_time |-> StrfDateTime(FromTimestamp(n.mtime)),
              path |-> path,
              folder |-> FolderOf(e, path),
              content |-> n.content]

----------------------------------------------------------------------------
(* The notes handed to one call of get_note_creation_date / note_to_json.  *)

NameN == <<"n", ".", "m", "d">>

NameDaily == <<"2", "0", "2", "1", "-", "0", "7", "-", "2", "3", " ", "(", "F", "r",
               "i", "d", "a", "y", ")", ".", "m", "d">>

NameMonthly == <<"2", "0", "2", "3", "-", "0", "7", ".", "m", "d">>

NameYearly == <<"2", "0", "2", "3", ".", "m", "d">>

NameNotes == <<"n", "o", "t", "e", "s", ".", "m", "d">>

NameBadWeek == <<"2", "0", "2", "3", "-", "W", "x", "x", ".", "m", "d">>

SegA == <<"A">>

SegPeriodic == <<"P", "e", "r", "i", "o", "d", "i", "c">>

SegDaily == <<"D", "a", "i", "l", "y", " ", "N", "o", "t", "e", "s">>

SegWeekly == <<"W", "e", "e", "k", "l", "y", " ", "N", "o", "t", "e", "s">>

SegMonthly == <<"M", "o", "n", "t", "h", "l", "y", " ", "N", "o", "t", "e", "s">>

SegYearly == <<"Y", "e", "a", "r", "l", "y", " ", "N", "o", "t", "e", "s">>

\* YEAR-Wnn.md
WeeklyName(y, w) == Pad(y, 4) \o <<"-", "W">> \o Pad(w, 2) \o MdSuffix

WeeklyNames == {WeeklyName(y, w) : y \in MinYear..MaxYear, w \in 0..MaxWeek}

\* the directories that hold weekly notes
WeeklyDirs == {<<SegPeriodic, SegWeekly>>, <<SegA, SegPeriodic, SegWeekly, SegA>>}

\* the text that follows "date:" on a front-matter line
TailChars == {" ", "\t", "7"}

Tails == UNION {[1..k -> TailChars] : k \in 0..MaxTail}

\* contents whose second line starts with "date:"
DatedContents ==
    {first \o <<"\n">> \o DatePrefix \o t \o <<"\n", "b">> :
        first \in {Dash3, <<"-">>}, t \in Tails}

\* contents with no line that starts with "date:"
PlainContents == {<<"b">>, Dash3 \o <<"\n", "x">>}

\* 1985-01-01, 1990-12-31 23:59:59, 1991-01-01, 2021-01-01 01:01:01, 2022-01-01
Stamps == {473385600, 662687999, 662688000, 1609462861, 1640995200}

Stat(c, m, a, b, has) ==
    [ctime |-> c, mtime |-> m, atime |-> a, birth |-> b, hasBirth |-> has]

\* two stat() results: no creation time; a creation time that is the oldest
FewStats ==
    {Stat(1640995200, 1609462861, 1640995200, 0, FALSE),
     Stat(1640995200, 1640995200, 473385600, 1609462861, TRUE)}

AllStats ==
    {Stat(c, m, a, 0, FALSE) : c \in Stamps, m \in Stamps, a \in Stamps}
        \cup {Stat(c, m, a, b, TRUE) : c \in Stamps, m \in Stamps, a \in Stamps, b \in Stamps}

Note(segs, fname, readable, content, st) ==
    [segs |-> segs, fname |-> fname, readable |-> readable, content |-> content,
     st |-> st]

\* notes with a front matter, anywhere in the vault
FrontNotes ==
    {Note(pl[1], pl[2], TRUE, c, st) :
        pl \in {<<<<>>, NameN>>, <<<<SegA>>, NameN>>,
                <<<<SegPeriodic, SegWeekly>>, WeeklyName(2023, 29)>>,
                <<<<SegPeriodic, SegDaily>>, NameDaily>>,
                <<<<SegPeriodic, SegMonthly>>, NameMonthly>>},
        c \in DatedContents, st \in FewStats}

\* periodic notes without a dated front matter
PeriodicNotes ==
    {Note(d, f, TRUE, c, st) :
        d \in WeeklyDirs, f \in WeeklyNames \cup {NameNotes, NameBadWeek},
        c \in PlainContents, st \in FewStats}
    \cup
    {Note(pl[1], pl[2], TRUE, c, st) :
        pl \in {<<<<SegPeriodic, SegDaily>>, NameDaily>>,
                <<<<SegPeriodic, SegDaily>>, NameN>>,
                <<<<SegPeriodic, SegMonthly>>, NameMonthly>>,
                <<<<SegPeriodic, SegYearly>>, NameYearly>>,
                <<<<SegPeriodic, SegA>>, NameN>>},
        c \in PlainContents, st \in FewStats}

\* notes dated by their time stamps, and notes that cannot be read
StampNotes ==
    {Note(d, NameN, r, <<"b">>, st) :
        d \in {<<>>, <<SegA>>, <<SegA, SegA>>}, r \in BOOLEAN, st \in AllStats}

\* the argument of the call: what the note's stat() and read() give
Arg(n) ==
    [readable |-> n.readable, content |-> n.content, ctime |-> n.st.ctime,
     mtime |-> n.st.mtime, atime |-> n.st.atime, birth |-> n.st.birth,
     hasBirth |-> n.st.hasBirth]

EmptyTree == [dirs |-> {}, files |-> <<>>]

TreeOff ==
    /\ stage = "off" /\ err = "none" /\ dirs = {} /\ files = <<>>
    /\ walk = <<>> /\ cur = <<>> /\ pending = {} /\ firstLevel = {}
    /\ vault0 = EmptyTree /\ notes = {} /\ pre = EmptyTree
    /\ converted = {} /\ failed = {}

InitNote ==
    /\ entry \in {"main", "lambda"}
    /\ note \in FrontNotes \cup PeriodicNotes \cup StampNotes
    /\ phase = "input"
    /\ ret = Raise("none")
    /\ rec = NoRecord("none")
    /\ TreeOff

GetNoteCreationDate ==
    /\ phase = "input"
    /\ ret' = get_note_creation_date(entry, NoteFile(entry, note.segs \o <<note.fname>>),
                                     Arg(note))
    /\ phase' = "dated"
    /\ UNCHANGED <<entry, note, rec>>
    /\ UNCHANGED treeVars

NoteToJson ==
    /\ phase = "input"
    /\ rec' = note_to_json(entry, NoteFile(entry, note.segs \o <<note.fname>>),
                           Arg(note))
    /\ phase' = "json"
    /\ UNCHANGED <<entry, note, ret>>
    /\ UNCHANGED treeVars

NextNote == GetNoteCreationDate \/ NoteToJson

SpecNote == InitNote /\ [][NextNote]_vars

----------------------------------------------------------------------------
(* The working tree: [dirs, files].  A file holds "raw" (what the archive  *)
(* held), "record" (the whole JSON record of note `of`) or "partial" (a    *)
(* JSON file whose write failed half way).                                 *)

DirNames == {<<"A">>, <<"v", ".", "d">>, <<".", "o">>, <<"_", "t">>}

FileNames == {<<"x", ".", "m", "d">>, <<"i", ".", "p", "n", "g">>}

Raw == [kind |-> "raw", of |-> <<>>]

Tree(d, f) == [dirs |-> d, files |-> f]

IsUnder(x, d) == Len(x) > Len(d) /\ SubSeq(x, 1, Len(d)) = d

ChildDirs(t, d) == {x \in t.dirs : Len(x) = Len(d) + 1 /\ IsUnder(x, d)}

ChildFiles(t, d) == {x \in DOMAIN t.files : Len(x) = Len(d) + 1 /\ IsUnder(x, d)}

Exists(t, p) == p \in t.dirs \/ p \in DOMAIN t.files

Put(f, k, v) == [x \in DOMAIN f \cup {k} |-> IF x = k THEN v ELSE f[x]]

Drop(f, K) == [x \in DOMAIN f \ K |-> f[x]]

\* shutil.rmtree(d)
Rmtree(t, d) ==
    Tree({x \in t.dirs : x # d /\ ~IsUnder(x, d)},
         Drop(t.files, {x \in DOMAIN t.files : IsUnder(x, d)}))

RECURSIVE RmtreeAll(_, _)
RmtreeAll(t, ds) ==
    IF ds = {} THEN t
    ELSE LET d == CHOOSE x \in ds : TRUE IN RmtreeAll(Rmtree(t, d), ds \ {d})

\* os.walk, top down: the directory taken from the top of the stack, and the
\* stack once the directories listed in it are pushed
WalkPop(w, d, listed) ==
    LET rest == IF Head(w) = {d} THEN Tail(w) ELSE <<Head(w) \ {d}>> \o Tail(w)
    IN  IF listed = {} THEN rest ELSE <<listed>> \o rest

----------------------------------------------------------------------------
(* Pass 1: prune.                                                          *)

IsPrunedDirMutant(name) == StartsWith(name, <<".">>)

\* dir.startswith(".") or dir.startswith("_")
IsPrunedDir(name) == StartsWith(name, <<".">>) \/ StartsWith(name, <<"_">>)

\* the body of the first os.walk loop for one root
PruneBody(t, root) ==
    LET gone == {d \in ChildDirs(t, root) : IsPrunedDir(Last(d))}
        t1 == RmtreeAll(t, gone)
        junk == {f \in ChildFiles(t, root) : ~EndsWith(Last(f), MdSuffix)}
    IN  Tree(t1.dirs, Drop(t1.files, junk))

----------------------------------------------------------------------------
(* Pass 2: convert.                                                        *)

\* what one note turns out to hold when it is read
NoteKinds ==
    {[readable |-> TRUE,
      content |-> Dash3 \o <<"\n">> \o DatePrefix \o <<" ", "7", "\n", "b">>,
      ctime |-> 1640995200, mtime |-> 1609462861, atime |-> 1640995200,
      birth |-> 0, hasBirth |-> FALSE],
     [readable |-> FALSE, content |-> <<>>,
      ctime |-> 1640995200, mtime |-> 1609462861, atime |-> 1640995200,
      birth |-> 0, hasBirth |-> FALSE],
     [readable |-> TRUE, content |-> <<"b">>,
      ctime |-> 473385600, mtime |-> 473385600, atime |-> 473385600,
      birth |-> 0, hasBirth |-> FALSE]}

\* how writing the JSON file ends: written; open() raises; json.dump raises
WriteOutcomes == {"written", "refused", "partial"}

\* json_file = note.removesuffix(".md") + ".json"
JsonFile(n) == Front(n) \o <<RemoveSuffix(Last(n), MdSuffix) \o JsonSuffix>>

ConvertBodyMutant(t, n, r, w) ==
    IF ~r.ok THEN [tree |-> t, err |-> r.err]
    ELSE IF JsonFile(n) \in t.dirs
        THEN [tree |-> Tree(t.dirs, Drop(t.files, {n})), err |-> "IsADirectoryError"]
    ELSE IF w = "refused"
        THEN [tree |-> Tree(t.dirs, Drop(t.files, {n})), err |-> "OSError"]
    ELSE IF w = "partial"
        THEN [tree |-> Tree(t.dirs, Drop(Put(t.files, JsonFile(n),
                                             [kind |-> "partial", of |-> n]), {n})),
              err |-> "OSError"]
    ELSE [tree |-> Tree(t.dirs, Drop(Put(t.files, JsonFile(n),
                                         [kind |-> "record", of |-> n]), {n})),
          err |-> "none"]

\* the body of the second os.walk loop for one note n: r is what
\* note_to_json(note) gave, w how the write of the JSON file ended
ConvertBody(t, n, r, w) ==
    IF ~r.ok THEN [tree |-> t, err |-> r.err]
    ELSE IF JsonFile(n) \in t.dirs
        THEN [tree |-> t, err |-> "IsADirectoryError"]
    ELSE IF w = "refused"
        THEN [tree |-> t, err |-> "OSError"]
    ELSE IF w = "partial"
        THEN [tree |-> Tree(t.dirs, Put(t.files, JsonFile(n),
                                        [kind |-> "partial", of |-> n])),
              err |-> "OSError"]
    ELSE [tree |-> Tree(t.dirs, Drop(Put(t.files, JsonFile(n),
                                         [kind |-> "record", of |-> n]), {n})),
          err |-> "none"]

----------------------------------------------------------------------------
(* Pass 3: collapse (lambda_handler only).                                 *)

Perms(S) ==
    {s \in [1..Cardinality(S) -> S] : \A i, j \in 1..Cardinality(S) : i # j => s[i] # s[j]}

\* pathlib.Path(d).rglob("*.*"): for d and then each directory below it, parents
\* first, the entries whose name holds a dot.  scandir's order is not fixed, so
\* this is the set of the lists the call can give
RECURSIVE Rglob(_, _)
RECURSIVE RglobEach(_, _)
Rglob(t, d) ==
    LET hits == {x \in ChildDirs(t, d) \cup ChildFiles(t, d) : Contains(Last(x), <<".">>)}
    IN  {a \o b : a \in Perms(hits),
                  b \in UNION {RglobEach(t, o) : o \in Perms(ChildDirs(t, d))}}

RglobEach(t, order) ==
    IF order = <<>> THEN {<<>>}
    ELSE {a \o b : a \in Rglob(t, Head(order)), b \in RglobEach(t, Tail(order))}

\* shutil.move(src, dst), dst an existing directory, with the exception it may
\* raise swallowed: nothing moves when dst already has an entry of that name or
\* when src is gone; else src, with all below it, is renamed into dst
Move(t, src, dst) ==
    LET real == dst \o <<Last(src)>>
        to(x) == IF x = src \/ IsUnder(x, src)
                 THEN real \o SubSeq(x, Len(src) + 1, Len(x)) ELSE x
    IN  IF Exists(t, real) \/ ~Exists(t, src) THEN t
        ELSE Tree({to(x) : x \in t.dirs},
                  [y \in {to(x) : x \in DOMAIN t.files} |->
                      t.files[CHOOSE x \in DOMAIN t.files : to(x) = y]])

\* the loop over files: every entry whose parent is not the vault root is moved
RECURSIVE MoveAll(_, _, _)
MoveAll(t, lst, folder) ==
    IF lst = <<>> THEN t
    ELSE MoveAll(IF Front(Head(lst)) # <<>> THEN Move(t, Head(lst), folder) ELSE t,
                 Tail(lst), folder)

\* the body of the loop over first_level for a folder that is a directory
CollapseBody(t, folder, lst) ==
    LET moved == MoveAll(t, lst, folder)
    IN  RmtreeAll(moved, ChildDirs(moved, folder))

----------------------------------------------------------------------------
(* The run of main / lambda_handler over the working tree.                 *)

NoteOff ==
    /\ note = Note(<<>>, NameN, TRUE, <<"b">>, Stat(0, 0, 0, 0, FALSE))
    /\ phase = "off"
    /\ ret = Raise("none")
    /\ rec = NoRecord("none")

Here == Tree(dirs, files)

Nodes == Cardinality(dirs) - 1 + Cardinality(DOMAIN files)

InitTree ==
    /\ entry \in {"main", "lambda"}
    /\ NoteOff
    /\ stage = "extract" /\ err = "none"
    /\ dirs = {<<>>} /\ files = <<>>
    /\ walk = <<>> /\ cur = <<>> /\ pending = {} /\ firstLevel = {}
    /\ vault0 = EmptyTree /\ notes = {} /\ pre = EmptyTree
    /\ converted = {} /\ failed = {}

\* decompress: tar.extractall creates one directory of the archive
ExtractDir ==
    /\ stage = "extract" /\ Nodes < MaxNodes
    /\ \E d \in dirs, nm \in DirNames :
          /\ ~Exists(Here, d \o <<nm>>)
          /\ dirs' = dirs \cup {d \o <<nm>>}
    /\ UNCHANGED <<entry, stage, err, files, walk, cur, pending, firstLevel, vault0,
                   notes, pre, converted, failed>>
    /\ UNCHANGED noteVars

\* decompress: tar.extractall creates one file of the archive
ExtractFile ==
    /\ stage = "extract" /\ Nodes < MaxNodes
    /\ \E d \in dirs, nm \in FileNames :
          /\ ~Exists(Here, d \o <<nm>>)
          /\ files' = Put(files, d \o <<nm>>, Raw)
    /\ UNCHANGED <<entry, stage, err, dirs, walk, cur, pending, firstLevel, vault0,
                   notes, pre, converted, failed>>
    /\ UNCHANGED noteVars

\* the first os.walk(vault) starts
StartPrune ==
    /\ stage = "extract"
    /\ stage' = "prune"
    /\ walk' = <<{<<>>}>>
    /\ vault0' = Here
    /\ UNCHANGED <<entry, err, dirs, files, cur, pending, firstLevel, notes, pre,
                   converted, failed>>
    /\ UNCHANGED noteVars

\* os.walk reaches a directory that is gone: scandir fails and the directory is
\* passed over (onerror is None)
WalkSkip ==
    /\ stage \in {"prune", "convert"} /\ err = "none" /\ pending = {}
    /\ walk # <<>>
    /\ \E d \in Head(walk) :
          /\ d \notin dirs
          /\ walk' = WalkPop(walk, d, {})
    /\ UNCHANGED <<entry, stage, err, dirs, files, cur, pending, firstLevel, vault0,
                   notes, pre, converted, failed>>
    /\ UNCHANGED noteVars

\* one iteration of the first os.walk loop
PruneDir ==
    /\ stage = "prune" /\ err = "none"
    /\ walk # <<>>
    /\ \E d \in Head(walk) :
          /\ d \in dirs
          /\ dirs' = PruneBody(Here, d).dirs
          /\ files' = PruneBody(Here, d).files
          /\ walk' = WalkPop(walk, d, ChildDirs(Here, d))
    /\ UNCHANGED <<entry, stage, err, cur, pending, firstLevel, vault0, notes, pre,
                   converted, failed>>
    /\ UNCHANGED noteVars

\* the first loop is over; the second os.walk(vault) starts
StartConvert ==
    /\ stage = "prune" /\ err = "none"
    /\ walk = <<>>
    /\ stage' = "convert"
    /\ walk' = <<{<<>>}>>
    /\ notes' = {f \in DOMAIN files : EndsWith(Last(f), MdSuffix)}
    /\ UNCHANGED <<entry, err, dirs, files, cur, pending, firstLevel, vault0, pre,
                   converted, failed>>
    /\ UNCHANGED noteVars

\* the second os.walk yields a directory: its files are listed
ConvertDir ==
    /\ stage = "convert" /\ err = "none" /\ pending = {}
    /\ walk # <<>>
    /\ \E d \in Head(walk) :
          /\ d \in dirs
          /\ cur' = d
          /\ pending' = {Last(f) : f \in {g \in ChildFiles(Here, d) :
                                              EndsWith(Last(g), MdSuffix)}}
          /\ walk' = WalkPop(walk, d, ChildDirs(Here, d))
    /\ UNCHANGED <<entry, stage, err, dirs, files, firstLevel, vault0, notes, pre,
                   converted, failed>>
    /\ UNCHANGED noteVars

\* one iteration of the inner loop of the second os.walk: one note
ConvertNote ==
    /\ stage = "convert" /\ err = "none"
    /\ \E nm \in pending, k \in NoteKinds, w \in WriteOutcomes :
          LET n == cur \o <<nm>>
              r == note_to_json(entry, NoteFile(entry, n), k)
              out == ConvertBody(Here, n, r, w)
          IN  /\ dirs' = out.tree.dirs
              /\ files' = out.tree.files
              /\ err' = out.err
              /\ pending' = pending \ {nm}
              /\ converted' = IF out.err = "none" THEN converted \cup {n} ELSE converted
              /\ failed' = IF out.err = "none" THEN failed ELSE failed \cup {n}
    /\ UNCHANGED <<entry, stage, walk, cur, firstLevel, vault0, notes, pre>>
    /\ UNCHANGED noteVars

\* main returns once the second loop is over
FinishMain ==
    /\ entry = "main"
    /\ stage = "convert" /\ err = "none" /\ pending = {} /\ walk = <<>>
    /\ stage' = "done"
    /\ UNCHANGED <<entry, err, dirs, files, walk, cur, pending, firstLevel, vault0,
                   notes, pre, converted, failed>>
    /\ UNCHANGED noteVars

\* first_level = [os.path.join(vault, d) for d in os.listdir(vault)]
StartCollapse ==
    /\ entry = "lambda"
    /\ stage = "convert" /\ err = "none" /\ pending = {} /\ walk = <<>>
    /\ stage' = "collapse"
    /\ firstLevel' = ChildDirs(Here, <<>>) \cup ChildFiles(Here, <<>>)
    /\ pre' = Here
    /\ UNCHANGED <<entry, err, dirs, files, walk, cur, pending, vault0, notes,
                   converted, failed>>
    /\ UNCHANGED noteVars

\* one iteration of the loop over first_level, for a directory
CollapseFolder ==
    /\ stage = "collapse" /\ err = "none"
    /\ \E folder \in firstLevel :
          /\ folder \in dirs
          /\ \E lst \in Rglob(Here, folder) :
                /\ dirs' = CollapseBody(Here, folder, lst).dirs
                /\ files' = CollapseBody(Here, folder, lst).files
          /\ firstLevel' = firstLevel \ {folder}
    /\ UNCHANGED <<entry, stage, err, walk, cur, pending, vault0, notes, pre,
                   converted, failed>>
    /\ UNCHANGED noteVars

\* one iteration of the loop over first_level, for a file of the vault root:
\* rglob of a file gives nothing, and os.listdir(folder) raises
CollapseFile ==
    /\ stage = "collapse" /\ err = "none"
    /\ \E folder \in firstLevel :
          /\ folder \in DOMAIN files
          /\ firstLevel' = firstLevel \ {folder}
    /\ err' = "NotADirectoryError"
    /\ UNCHANGED <<entry, stage, dirs, files, walk, cur, pending, vault0, notes, pre,
                   converted, failed>>
    /\ UNCHANGED noteVars

\* the loop over first_level is over: the vault is handed to the publication
Publish ==
    /\ stage = "collapse" /\ err = "none"
    /\ firstLevel = {}
    /\ stage' = "done"
    /\ UNCHANGED <<entry, err, dirs, files, walk, cur, pending, firstLevel, vault0,
                   notes, pre, converted, failed>>
    /\ UNCHANGED noteVars

Next ==
    \/ ExtractDir
    \/ ExtractFile
    \/ StartPrune
    \/ WalkSkip
    \/ PruneDir
    \/ StartConvert
    \/ ConvertDir
    \/ ConvertNote
    \/ FinishMain
    \/ StartCollapse
    \/ CollapseFolder
    \/ CollapseFile
    \/ Publish

Spec == InitTree /\ [][Next]_vars

----------------------------------------------------------------------------
(* The claims about get_note_creation_date and note_to_json (SpecNote).    *)

IsSpace(c) == c \in {" ", "\t", "\n"}

\* the whitespace-separated tokens of a line
RECURSIVE WsTokens(_)
WsTokens(s) ==
    IF s = <<>> THEN <<>>
    ELSE IF IsSpace(s[1]) THEN WsTokens(Tail(s))
    ELSE LET sp == {k \in 1..Len(s) : IsSpace(s[k])}
             e == IF sp = {} THEN Len(s) + 1 ELSE Min(sp)
         IN  <<SubSeq(s, 1, e - 1)>> \o WsTokens(SubSeq(s, e, Len(s)))

\* the lines of a content that begin with "date:" and carry a value
DatedLines(content) ==
    LET lines == Split(content, <<"\n">>)
    IN  {i \in 1..Len(lines) :
            StartsWith(lines[i], DatePrefix) /\ Len(WsTokens(lines[i])) >= 2}

\* C3: for a note whose content starts with --- and has a line beginning with
\* date: followed by a value, get_note_creation_date returns the second
\* whitespace-separated token of that line, whatever the path and time stamps.
C3_SecondTokenOfDateLine ==
    (/\ phase = "dated"
     /\ note.readable
     /\ StartsWith(note.content, Dash3)
     /\ DatedLines(note.content) # {})
    => LET lines == Split(note.content, <<"\n">>)
       IN  ret = Return(WsTokens(lines[Min(DatedLines(note.content))])[2])

\* the time stamps the platform gives whose year is after 1990
Plausible(st) ==
    {t \in {st.ctime, st.mtime, st.atime} \cup (IF st.hasBirth THEN {st.birth} ELSE {}) :
        FromTimestamp(t).y > 1990}

\* C4: for a note with no front-matter date and no periodic path, in each entry
\* point get_note_creation_date returns the earliest of the time stamps whose
\* year is after 1990, as YYYY-MM-DD, with or without a creation time.
C4_EarliestPlausibleStamp ==
    (/\ phase = "dated"
     /\ note.readable
     /\ note.content \in PlainContents
     /\ \A i \in 1..Len(note.segs) : note.segs[i] # SegPeriodic
     /\ Plausible(note.st) # {})
    => ret = Return(StrfDate(FromTimestamp(Min(Plausible(note.st)))))

\* C5: in each entry point the record's path is the note's directory relative to
\* the vault root, and its folder the last segment of that path; both are empty
\* for a note of the vault root.
C5_RelativePathAndFolder ==
    (phase = "json" /\ rec.ok)
    => /\ rec.path = Join(note.segs, <<"/">>)
       /\ rec.folder = IF note.segs = <<>> THEN <<>> ELSE Last(note.segs)

\* get_note_creation_date has returned for the weekly note YEAR-Wnn.md, which has
\* no front-matter date
WeeklyCall(y, w) ==
    /\ phase = "dated"
    /\ note.segs \in WeeklyDirs
    /\ note.content \in PlainContents
    /\ note.fname = WeeklyName(y, w)

\* the Monday of ISO week w of year y: ISO week 1 is the week of 4 January
IsoWeekMonday(y, w) ==
    LET jan4 == ToOrdinal(y, 1, 4) IN jan4 - Weekday(jan4) + 7 * (w - 1)

\* the first Monday of year y
FirstMonday(y) ==
    CHOOSE o \in ToOrdinal(y, 1, 1)..ToOrdinal(y, 1, 7) : Weekday(o) = 0

\* 1 January of year y is a Tuesday, a Wednesday or a Thursday
StartsMidWeek(y) == Weekday(ToOrdinal(y, 1, 1)) \in {1, 2, 3}

\* C8 as stated: for every year and week of the range, the weekly note's date is
\* the Monday of ISO week nn of YEAR.
C8_MondayOfIsoWeek ==
    \A y \in MinYear..MaxYear, w \in 1..53 :
        WeeklyCall(y, w) => ret = Return(StrfDate(FromOrdinal(IsoWeekMonday(y, w))))

\* C8 as amended: the weekly note's date is the nn-th Monday of YEAR; that is the
\* Monday of ISO week nn when 1 January of YEAR is a Monday, Friday, Saturday or
\* Sunday, and the Monday of ISO week nn+1 when it is a Tuesday, Wednesday or
\* Thursday.
C8_NthMondayOfYear ==
    \A y \in MinYear..MaxYear, w \in 1..53 :
        WeeklyCall(y, w) =>
            /\ ret = Return(StrfDate(FromOrdinal(FirstMonday(y) + 7 * (w - 1))))
            /\ ret = Return(StrfDate(FromOrdinal(
                        IsoWeekMonday(y, IF StartsMidWeek(y) THEN w + 1 ELSE w))))

\* a weekly note of a year that starts in mid week has been dated
C8_Witness ==
    \E y \in MinYear..MaxYear, w \in 1..53 :
        WeeklyCall(y, w) /\ StartsMidWeek(y) /\ ret.ok

----------------------------------------------------------------------------
(* The claims about the passes over the working tree (Spec).               *)

StartsDotOrUnderscore(name) == name # <<>> /\ name[1] \in {".", "_"}

\* f is the JSON sibling of note n: same directory, same base name
IsJsonOf(f, n) ==
    /\ Front(f) = Front(n)
    /\ EndsWith(Last(n), MdSuffix) /\ EndsWith(Last(f), JsonSuffix)
    /\ RemoveSuffix(Last(f), JsonSuffix) = RemoveSuffix(Last(n), MdSuffix)

\* the convert pass is running, has raised, or has just ended in main
InConvert == stage = "convert" \/ (stage = "done" /\ entry = "main")

\* C1: in the convert pass a note whose .md file is gone has its JSON sibling,
\* wholly written, and a note whose processing failed still has its .md file
\* untouched.
C1_NoteKeptUntilJsonWritten ==
    InConvert =>
        /\ \A n \in notes :
              n \notin DOMAIN files =>
                  \E f \in DOMAIN files :
                      IsJsonOf(f, n) /\ files[f] = [kind |-> "record", of |-> n]
        /\ \A n \in failed : n \in DOMAIN files /\ files[n] = Raw

\* one note is converted, and the JSON write of another failed half way
C1_Witness ==
    /\ stage = "convert"
    /\ converted # {}
    /\ \E n \in failed, f \in DOMAIN files : IsJsonOf(f, n) /\ files[f].kind = "partial"

\* C2: when note_to_json raises for one note, only that note is abandoned: every
\* other note is converted and its .md file removed by the end of the pass.
C2_OtherNotesStillConverted ==
    (/\ stage = "convert"
     /\ failed # {}
     /\ err \in {"PermissionError", "ValueError", "AttributeError", "IndexError"})
    => \A n \in notes \ failed :
           /\ n \notin DOMAIN files
           /\ \E f \in DOMAIN files : IsJsonOf(f, n)

\* the collapse pass has run to its end
Collapsed == stage = "done" /\ entry = "lambda"

\* C6: after the collapse pass no first-level directory has a subdirectory, and
\* every file that was nested beneath it, with a name not already directly in
\* it, is a direct child of it.
C6_FirstLevelFlat ==
    Collapsed =>
        \A D \in ChildDirs(pre, <<>>) :
            /\ {x \in dirs : IsUnder(x, D)} = {}
            /\ \A f \in DOMAIN pre.files :
                  (IsUnder(f, D) /\ ~Exists(pre, D \o <<Last(f)>>))
                      => D \o <<Last(f)>> \in DOMAIN files

\* C7: when the first note is converted no directory whose name starts with . or
\* _ is left at any depth and no file that does not end in .md; no note under
\* such a directory is ever converted.
C7_PrunedBeforeConvert ==
    /\ (stage = "convert" /\ converted = {} /\ err = "none") =>
          /\ \A d \in dirs \ {<<>>} : ~StartsDotOrUnderscore(Last(d))
          /\ \A f \in DOMAIN files : EndsWith(Last(f), MdSuffix)
    /\ \A n \in converted : \A i \in 1..(Len(n) - 1) : ~StartsDotOrUnderscore(n[i])

\* a note is converted in a vault that held a note in a nested . or _ directory
C7_Witness ==
    /\ stage = "convert"
    /\ converted # {}
    /\ \E f \in DOMAIN vault0.files :
          /\ Len(f) >= 3
          /\ StartsDotOrUnderscore(f[2])
          /\ EndsWith(Last(f), MdSuffix)

\* C9: the collapse pass never raises, also when the vault root holds files.
C9_CollapseNeverRaises == ~(stage = "collapse" /\ err # "none")

\* C10: the collapse pass loses no record whose file name is unique beneath its
\* first-level folder: the record is directly in that folder after the pass.
C10_NoRecordLost ==
    Collapsed =>
        \A D \in ChildDirs(pre, <<>>) :
            \A f \in DOMAIN pre.files :
                (/\ IsUnder(f, D)
                 /\ EndsWith(Last(f), JsonSuffix)
                 /\ \A g \in DOMAIN pre.files :
                       (IsUnder(g, D) /\ Last(g) = Last(f)) => g = f)
                => /\ D \o <<Last(f)>> \in DOMAIN files
                   /\ files[D \o <<Last(f)>>] = pre.files[f]

====
